---- MODULE Spec2Model ----
(***************************************************************************)
(* Model of homework_2/HW2_template.py: the Euclidean GCD stepper          *)
(* (compute_gcd), the 1-based step selector (get_k_step), the response     *)
(* formatter (construct_response_string), the hasher stub (compute_sha256),*)
(* the driver (gcd_with_sha256) and the test routine                       *)
(* (test_gcd_with_sha256).                                                 *)
(*                                                                         *)
(* A behaviour is one run of one entry point:                              *)
(*   entry = "gcd_with_sha256"  a call of the driver on bounded inputs,    *)
(*   entry = "test"             main(): the 20 fixed cases, one by one,    *)
(*   entry = "get_k_step"       a direct call of the selector on an        *)
(*                              arbitrary bounded step sequence.           *)
(***************************************************************************)
EXTENDS Integers, Sequences, FiniteSets, TLC

VARIABLES entry, i, arg_a, arg_b, k, wsuid, sk,
          a, b, s, pc,
          gcd_value, steps, depth, k_step, response_string, result, output

vars == <<entry, i, arg_a, arg_b, k, wsuid, sk, a, b, s, pc,
          gcd_value, steps, depth, k_step, response_string, result, output>>

(* ------------------------------ bounds --------------------------------- *)
\* largest value of a and b passed to the driver
MaxVal == 9
\* largest step index k passed to the driver and to the selector
MaxK == 7
\* the step indexes k passed go down to -MaxNegK
MaxNegK == 2
\* cap on the number of recorded steps (stops a non-terminating loop)
MaxSteps == 20
\* longest step sequence handed directly to get_k_step
MaxSeqLen == 2
\* largest component of a step handed directly to get_k_step
MaxElem == 1

(* --------------------------- Python values ----------------------------- *)
\* Python's None; distinct from every pair <<x, y>> and from every string
None == <<"None">>

\* bool(v) as used by `if k_step:`: None is false, a tuple is true iff
\* it is non-empty (its contents do not matter)
Truthy_anyNonZero(v) == IF v = None THEN FALSE ELSE (v[1] /= 0 \/ v[2] /= 0)
Truthy(v) == v /= None /\ Len(v) /= 0

\* seq[idx] with Python's 0-based indexing and negative wrap-around
PyIndex(seq, idx) == IF idx >= 0 THEN seq[idx + 1] ELSE seq[Len(seq) + idx + 1]

Digit(d) == CASE d = 0 -> "0" [] d = 1 -> "1" [] d = 2 -> "2" [] d = 3 -> "3"
              [] d = 4 -> "4" [] d = 5 -> "5" [] d = 6 -> "6" [] d = 7 -> "7"
              [] d = 8 -> "8" [] d = 9 -> "9"

RECURSIVE NatToStr(_)
NatToStr(n) == IF n < 10 THEN Digit(n) ELSE NatToStr(n \div 10) \o Digit(n % 10)

\* f"{n}" for an int n: decimal digits, '-' in front of a negative number
IntToStr(n) == IF n < 0 THEN "-" \o NatToStr(0 - n) ELSE NatToStr(n)

(* ---------------------------- compute_gcd ------------------------------ *)
\* lines 24-27: the pair that replaces (x, y) when y /= 0
NextPair_sub(x, y) == IF x < y THEN <<y, x>> ELSE <<y, x - y>>
NextPair_seqswap(x, y) == IF x < y THEN <<y, y>> ELSE <<y, x % y>>
NextPair_le(x, y) == IF x <= y THEN <<y, x>> ELSE <<y, x % y>>
NextPair(x, y) == IF x < y THEN <<y, x>> ELSE <<y, x % y>>

\* the whole function: <<gcd, steps>>
RECURSIVE gcd_loop(_, _, _)
gcd_loop(x, y, acc) ==
    LET rec == Append(acc, <<x, y>>)
    IN IF y = 0 THEN <<x, rec>>
       ELSE gcd_loop(NextPair(x, y)[1], NextPair(x, y)[2], rec)

compute_gcd(x, y) == gcd_loop(x, y, <<>>)

(* ----------------------------- get_k_step ------------------------------ *)
get_k_step_ge(stps, kk) ==
    IF kk >= Len(stps) \/ kk <= 0 THEN None ELSE PyIndex(stps, kk - 1)
get_k_step(stps, kk) ==
    IF kk > Len(stps) \/ kk <= 0 THEN None ELSE PyIndex(stps, kk - 1)

(* ---------------------- construct_response_string ---------------------- *)
construct_response_string(g, d, ks) ==
    IF Truthy(ks)
    THEN IntToStr(g) \o "," \o IntToStr(d) \o "," \o IntToStr(ks[1])
                     \o "," \o IntToStr(ks[2])
    ELSE IntToStr(g) \o "," \o IntToStr(d) \o ",None"

(* --------------------------- compute_sha256 ---------------------------- *)
\* the body is `pass`: the call returns None whatever its arguments are
compute_sha256(w, key, rs) == None

(* ------------------------ test_gcd_with_sha256 ------------------------- *)
test_cases == <<
    <<48, 18, 3, "6,4,12,6">>,
    <<56, 98, 2, "14,5,98,56">>,
    <<101, 103, 1, "1,5,101,103">>,
    <<123456, 789012, 4, "12,13,48276,26904">>,
    <<540, 150, 2, "30,5,150,90">>,
    <<1000000, 500000, 3, "500000,2,None">>,
    <<987654, 123456, 5, "6,3,None">>,
    <<42, 56, 1, "14,4,42,56">>,
    <<144, 89, 2, "1,11,89,55">>,
    <<999999, 333333, 2, "333333,2,333333,0">>,
    <<250, 1000, 3, "250,3,250,0">>,
    <<77, 121, 1, "11,6,77,121">>,
    <<36, 60, 2, "12,5,60,36">>,
    <<84, 36, 3, "12,3,12,0">>,
    <<700, 1050, 4, "350,4,350,0">>,
    <<27, 81, 2, "27,3,81,27">>,
    <<600, 750, 2, "150,4,750,600">>,
    <<48, 180, 3, "12,5,48,36">>,
    <<1024, 2048, 2, "1024,3,2048,1024">>,
    <<12345, 54321, 5, "3,7,2463,15">> >>

(* ------------------------------ inputs --------------------------------- *)
Vals == 0..MaxVal
Ks == (0 - MaxNegK)..MaxK
Wsuids == {"11111111", ""}
Sks == {"secret"}
Elems == 0..MaxElem
StepSeqs == UNION {[1..n -> Elems \X Elems] : n \in 0..MaxSeqLen}

(* ------------------------------- Init ---------------------------------- *)
\* gcd_with_sha256(a, b, k, wsuid, sk) has just entered compute_gcd(a, b)
InitDriver ==
    /\ entry = "gcd_with_sha256"
    /\ i = 0
    /\ arg_a \in Vals /\ arg_b \in Vals /\ k \in Ks
    /\ wsuid \in Wsuids /\ sk \in Sks
    /\ a = arg_a /\ b = arg_b /\ s = <<>>
    /\ pc = "iterating"
    /\ steps = <<>>

\* main(): the first test case has just entered compute_gcd(a, b)
InitTest ==
    /\ entry = "test"
    /\ i = 1
    /\ arg_a = test_cases[1][1] /\ arg_b = test_cases[1][2]
    /\ k = test_cases[1][3]
    /\ wsuid = "" /\ sk = ""
    /\ a = arg_a /\ b = arg_b /\ s = <<>>
    /\ pc = "iterating"
    /\ steps = <<>>

\* get_k_step(steps, k) called on its own
InitSelect ==
    /\ entry = "get_k_step"
    /\ i = 0
    /\ arg_a = 0 /\ arg_b = 0 /\ k \in Ks
    /\ wsuid = "" /\ sk = ""
    /\ a = 0 /\ b = 0 /\ s = <<>>
    /\ pc = "select"
    /\ steps \in StepSeqs

Init ==
    /\ (InitDriver \/ InitTest \/ InitSelect)
    /\ gcd_value = 0 /\ depth = 0 /\ k_step = None
    /\ response_string = "" /\ result = <<>> /\ output = <<>>

(* ------------------------------ actions -------------------------------- *)
callerVars == <<entry, i, arg_a, arg_b, k, wsuid, sk>>
driverVars == <<gcd_value, steps, depth, k_step, response_string, result, output>>

\* lines 21-23: record the pair, b == 0, leave the loop
LoopBreak_norecord ==
    /\ pc = "iterating" /\ Len(s) < MaxSteps
    /\ b = 0
    /\ pc' = "done"
    /\ UNCHANGED <<a, b, s, callerVars, driverVars>>
LoopBreak ==
    /\ pc = "iterating" /\ Len(s) < MaxSteps
    /\ s' = Append(s, <<a, b>>)
    /\ b = 0
    /\ pc' = "done"
    /\ UNCHANGED <<a, b, callerVars, driverVars>>

\* lines 21-22, 24-25: record the pair, a < b, swap
LoopSwap ==
    /\ pc = "iterating" /\ Len(s) < MaxSteps
    /\ s' = Append(s, <<a, b>>)
    /\ b /= 0 /\ a < b
    /\ a' = NextPair(a, b)[1] /\ b' = NextPair(a, b)[2]
    /\ UNCHANGED <<pc, callerVars, driverVars>>

\* lines 21-22, 24, 26-27: record the pair, replace (a, b) by (b, a % b)
LoopMod ==
    /\ pc = "iterating" /\ Len(s) < MaxSteps
    /\ s' = Append(s, <<a, b>>)
    /\ b /= 0 /\ ~(a < b)
    /\ a' = NextPair(a, b)[1] /\ b' = NextPair(a, b)[2]
    /\ UNCHANGED <<pc, callerVars, driverVars>>

\* line 28 and lines 107-108 (147-148 in the test): return (a, s),
\* bind gcd_value and steps, depth = len(steps)
ReturnGcd ==
    /\ pc = "done"
    /\ gcd_value' = a /\ steps' = s /\ depth' = Len(s)
    /\ pc' = "select"
    /\ UNCHANGED <<a, b, s, callerVars, k_step, response_string, result, output>>

\* line 109 (149 in the test): k_step = get_k_step(steps, k)
SelectStep ==
    /\ pc = "select"
    /\ k_step' = get_k_step(steps, k)
    /\ pc' = IF entry = "get_k_step" THEN "returned" ELSE "format"
    /\ UNCHANGED <<a, b, s, callerVars, gcd_value, steps, depth,
                   response_string, result, output>>

\* line 110 (150 in the test): the response string
Format ==
    /\ pc = "format"
    /\ response_string' = construct_response_string(gcd_value, depth, k_step)
    /\ pc' = IF entry = "test" THEN "compare" ELSE "hash"
    /\ UNCHANGED <<a, b, s, callerVars, gcd_value, steps, depth, k_step,
                   result, output>>

\* lines 111-113: the hash, and the driver's return value
Hash ==
    /\ pc = "hash"
    /\ result' = <<gcd_value, depth, k_step,
                   compute_sha256(wsuid, sk, response_string)>>
    /\ pc' = "returned"
    /\ UNCHANGED <<a, b, s, callerVars, gcd_value, steps, depth, k_step,
                   response_string, output>>

\* lines 152-159 and the loop header 146: print the verdict of case i and
\* go on with case i + 1 (which enters compute_gcd), or finish
TestCompare ==
    /\ pc = "compare"
    /\ output' = Append(output, IF response_string /= test_cases[i][4]
                                THEN "Failed" ELSE "Passed")
    /\ IF i < Len(test_cases)
       THEN /\ i' = i + 1
            /\ arg_a' = test_cases[i + 1][1] /\ arg_b' = test_cases[i + 1][2]
            /\ k' = test_cases[i + 1][3]
            /\ a' = arg_a' /\ b' = arg_b' /\ s' = <<>>
            /\ pc' = "iterating"
       ELSE /\ pc' = "finished"
            /\ UNCHANGED <<i, arg_a, arg_b, k, a, b, s>>
    /\ UNCHANGED <<entry, wsuid, sk, gcd_value, steps, depth, k_step,
                   response_string, result>>

Next ==
    \/ LoopBreak
    \/ LoopSwap
    \/ LoopMod
    \/ ReturnGcd
    \/ SelectStep
    \/ Format
    \/ Hash
    \/ TestCompare

Spec == Init /\ [][Next]_vars

\* the program is sequential and always takes its next step
FairSpec == Spec /\ WF_vars(Next)

(* ======================= properties of the program ===================== *)
Max(x, y) == IF x < y THEN y ELSE x

\* d divides n (0 divides only 0)
Divides(d, n) == IF d = 0 THEN n = 0 ELSE n % d = 0

\* g is the greatest common divisor of x and y in the divisibility order
IsGcd(g, x, y) ==
    /\ Divides(g, x) /\ Divides(g, y)
    /\ \A d \in 0..Max(x, y) : (Divides(d, x) /\ Divides(d, y)) => Divides(d, g)

\* a call of compute_gcd(arg_a, arg_b) is in progress or over in this run
UsesGcd == entry /= "get_k_step"

\* compute_gcd(arg_a, arg_b) has left its loop
LoopOver == UsesGcd /\ pc /= "iterating"

\* gcd_value, steps and depth are those of compute_gcd(arg_a, arg_b)
Bound == UsesGcd /\ pc \in {"select", "format", "hash", "compare", "returned", "finished"}

\* response_string is the one built from compute_gcd(arg_a, arg_b) and k
Formatted == UsesGcd /\ pc \in {"hash", "compare", "returned", "finished"}

\* C1: the first component returned by compute_gcd(a, b) is the greatest
\* common divisor of a and b: it divides both and every common divisor
\* divides it (so gcd(a,0) = a, gcd(0,b) = b, gcd(0,0) = 0); this covers
\* the bounded pairs and the 20 test inputs.
C1_GcdCorrect ==
    (UsesGcd /\ pc = "select") =>
        /\ IsGcd(gcd_value, arg_a, arg_b)
        /\ (arg_b = 0 => gcd_value = arg_a)
        /\ (arg_a = 0 => gcd_value = arg_b)

C1_Witness ==
    /\ entry = "test" /\ i = 4 /\ pc = "select"
    /\ arg_a = 123456 /\ arg_b = 789012 /\ gcd_value = 12

\* C2: the loop of compute_gcd terminates: from the "iterating" state it
\* reaches "done" with a last recorded step whose second component is 0,
\* and outside the loop no step is recorded any more (s only changes again
\* when the test routine starts the next call with an empty list).
C2_Terminates ==
    /\ (pc = "iterating") ~> (pc = "done" /\ s /= <<>> /\ s[Len(s)][2] = 0)
    /\ [][pc /= "iterating" =>
            (s' = s \/ (entry = "test" /\ pc = "compare" /\ s' = <<>>))]_vars

C2_Witness ==
    /\ entry = "gcd_with_sha256" /\ pc = "done"
    /\ arg_a = 5 /\ arg_b = 8 /\ Len(s) = 6 /\ b = 0

\* C3: the returned step sequence is non-empty, its last step is (g, 0)
\* with g the returned gcd, no earlier step has second component 0, and
\* the depth of the driver is the number of recorded steps.
C3_StepsShape ==
    /\ LoopOver =>
          /\ Len(s) >= 1
          /\ s[Len(s)] = <<a, 0>>
          /\ \A j \in 1..(Len(s) - 1) : s[j][2] /= 0
    /\ Bound =>
          /\ steps = s
          /\ Len(steps) >= 1
          /\ steps[Len(steps)] = <<gcd_value, 0>>
          /\ depth = Len(steps)

C3_Witness ==
    /\ entry = "gcd_with_sha256" /\ pc = "format"
    /\ arg_a = 9 /\ arg_b = 6 /\ depth = 3 /\ steps[3] = <<3, 0>>

\* C4: get_k_step(steps, k) returns None when k <= 0 or k > len(steps),
\* returns steps[k-1] (the k-th step, 1-based) when 1 <= k <= len(steps),
\* and leaves steps as it was.
C4_GetKStep ==
    [][pc = "select" =>
          /\ steps' = steps
          /\ k_step' = IF k >= 1 /\ k <= Len(steps) THEN steps[k] ELSE None]_vars

C4_Witness ==
    /\ entry = "get_k_step" /\ pc = "returned"
    /\ Len(steps) = 2 /\ k = 2 /\ k_step = steps[2]

\* C5: the response string has the absent form "gcd,depth,None" exactly
\* when k is outside [1, depth], and for k inside [1, depth] it has the
\* present form "gcd,depth,A,B" with (A, B) the k-th recorded step, also
\* when that step holds zeros such as (g, 0) or (0, 0).
C5_ResponseForm ==
    Formatted =>
        LET head == IntToStr(gcd_value) \o "," \o IntToStr(depth)
        IN /\ (response_string = head \o ",None") <=> (k < 1 \/ k > depth)
           /\ (k >= 1 /\ k <= depth) =>
                 response_string = head \o "," \o IntToStr(steps[k][1])
                                        \o "," \o IntToStr(steps[k][2])

C5_Witness ==
    /\ entry = "gcd_with_sha256" /\ pc = "hash"
    /\ arg_a = 0 /\ arg_b = 0 /\ k = 1 /\ response_string = "0,1,0,0"

\* C6: for each of the 20 fixed test cases the formatted (gcd, depth,
\* k-th step or absence) is the expected response string, so every case
\* prints "Passed"; in particular (48,18,3) gives 6, 4, (12,6);
\* (56,98,2) gives 14, 5, (98,56); (1000000,500000,3) gives 500000, 2,
\* absent; (84,36,3) gives 12, 3, (12,0); (27,81,2) gives 27, 3, (81,27).
C6_TestCases ==
    entry = "test" =>
        /\ \A j \in 1..Len(output) : output[j] = "Passed"
        /\ pc = "compare" =>
              /\ response_string = test_cases[i][4]
              /\ i = 1  => <<gcd_value, depth, k_step>> = <<6, 4, <<12, 6>> >>
              /\ i = 2  => <<gcd_value, depth, k_step>> = <<14, 5, <<98, 56>> >>
              /\ i = 6  => <<gcd_value, depth, k_step>> = <<500000, 2, None>>
              /\ i = 14 => <<gcd_value, depth, k_step>> = <<12, 3, <<12, 0>> >>
              /\ i = 16 => <<gcd_value, depth, k_step>> = <<27, 3, <<81, 27>> >>

C6_Witness ==
    /\ entry = "test" /\ pc = "finished" /\ i = 20 /\ Len(output) = 20
    /\ response_string = "3,7,2463,15"

\* C7 as stated: for b /= 0 the first recorded step is the pair with the
\* larger value first, (b, a) when a < b and (a, b) otherwise.
C7_FirstStepLargerFirst ==
    (LoopOver /\ arg_b /= 0) =>
        s[1] = IF arg_a < arg_b THEN <<arg_b, arg_a>> ELSE <<arg_a, arg_b>>

\* C7 amended: for b /= 0 the first recorded step is the original pair
\* (a, b) in the caller's order; when a < b the pair with the larger value
\* first, (b, a), is the second recorded step.
C7_FirstStepOriginal ==
    (UsesGcd /\ arg_b /= 0) =>
        /\ Len(s) >= 1 => s[1] = <<arg_a, arg_b>>
        /\ (LoopOver /\ arg_a < arg_b) => (Len(s) >= 2 /\ s[2] = <<arg_b, arg_a>>)

C7_Witness ==
    /\ entry = "gcd_with_sha256" /\ pc = "done"
    /\ arg_a = 2 /\ arg_b = 7 /\ s[1] = <<2, 7>> /\ s[2] = <<7, 2>>

\* C8 as stated: gcd_with_sha256 returns a 4-tuple of the gcd, the depth,
\* the selected step (or None) and a hash string that is never None.
C8_DriverResult ==
    (entry = "gcd_with_sha256" /\ pc = "returned") =>
        /\ Len(result) = 4
        /\ result[1] = compute_gcd(arg_a, arg_b)[1]
        /\ result[2] = Len(compute_gcd(arg_a, arg_b)[2])
        /\ result[3] = get_k_step(compute_gcd(arg_a, arg_b)[2], k)
        /\ result[4] /= None

\* C9: the recorded steps start with the original pair (a, b), and every
\* later step comes from its predecessor (x, y), which has y /= 0, as
\* (y, x) when x < y and as (y, x mod y) otherwise; a call with b = 0
\* records the single step (a, 0) and returns gcd = a.
C9_StepDerivation ==
    UsesGcd =>
        /\ Len(s) >= 1 => s[1] = <<arg_a, arg_b>>
        /\ \A j \in 1..(Len(s) - 1) :
              /\ s[j][2] /= 0
              /\ s[j + 1] = IF s[j][1] < s[j][2]
                            THEN <<s[j][2], s[j][1]>>
                            ELSE <<s[j][2], s[j][1] % s[j][2]>>
        /\ (LoopOver /\ arg_b = 0) => s = << <<arg_a, 0>> >>
        /\ (Bound /\ arg_b = 0) => gcd_value = arg_a

C9_Witness ==
    /\ entry = "gcd_with_sha256" /\ pc = "done"
    /\ arg_a = 4 /\ arg_b = 6
    /\ s = << <<4, 6>>, <<6, 4>>, <<4, 2>>, <<2, 0>> >>

\* C10: the gcd of (a, b) is the gcd of (b, a); when a < b the steps of
\* (a, b) are the step (a, b) followed by all the steps of (b, a), so the
\* depth is larger by exactly one; and no swap happens after the first
\* step (every step from the second on has its larger value first).
C10_OrderIndependence ==
    (UsesGcd /\ pc = "select") =>
        LET other == compute_gcd(arg_b, arg_a)
        IN /\ gcd_value = other[1]
           /\ arg_a < arg_b =>
                 /\ steps = << <<arg_a, arg_b>> >> \o other[2]
                 /\ depth = Len(other[2]) + 1
           /\ \A j \in 2..Len(steps) : steps[j][1] >= steps[j][2]

C10_Witness ==
    /\ entry = "gcd_with_sha256" /\ pc = "select"
    /\ arg_a = 3 /\ arg_b = 8 /\ depth = 5 /\ gcd_value = 1

====
